---- MODULE Spec2Model ----
(***************************************************************************)
(* Order ingestion of the Polymarket copy trader: the wallet registry      *)
(* (EnhancedCopyTrader.copiedWallets), the global trade history, the       *)
(* counters, the polling timer with its sweeps, the initial poll of        *)
(* addWallet, and the push channel of PolymarketAPI (sockets, reconnect    *)
(* timer, one-time subscription pass).                                     *)
(*                                                                         *)
(* Every handler of the event loop is one action: JavaScript runs a        *)
(* callback to completion, and the only suspension points are the awaits   *)
(* on the order query (one in addWallet, one per polled wallet in a        *)
(* sweep).  A Trade is one object shared by wallet.trades and              *)
(* tradeHistory: wallet.trades holds indices into tradeHistory.            *)
(* Fields that are only carried along (nickname, price, size, market,      *)
(* timestamps) are left out; pnl is kept because it is never written.      *)
(***************************************************************************)
EXTENDS Integers, Sequences, FiniteSets, TLC

\* ------------------------------------------------------------------ bounds
MaxTrades == 2     \* tradeHistory is never longer than this
NumOrders == 2     \* order identifiers at the venue: 1..NumOrders
MaxBatch == 2      \* orders in one answer of the order query
MaxInFlight == 2   \* order queries awaiting their answer at the same time
MaxSockets == 2    \* WebSocket objects alive at the same time
MinActive == 1     \* stats.activeTrades is not driven below -MinActive

\* ------------------------------------------------------------- environment
\* Spellings of wallet addresses as callers and the venue write them.
Spellings == {"0xa", "0xA", "0xb"}

ToLowerCase(s) == CASE s = "0xA" -> "0xa"
                    [] s = "0xB" -> "0xb"
                    [] OTHER -> s

Keys == {ToLowerCase(s) : s \in Spellings}

\* The statuses the venue reports in this model; CANCELLED reaches a Trade
\* through the order_cancelled event.
Statuses == {"OPEN", "FILLED"}

OrderIds == 1..NumOrders

\* The venue attributes every order to one trader.
Owner(id) == IF id <= 2 THEN "0xa" ELSE "0xb"

RawOrders(key) ==
    [id : {i \in OrderIds : Owner(i) = key},
     trader : {s \in Spellings : ToLowerCase(s) = key},
     status : Statuses]

\* The answers the venue can give to /orders?trader=key: each order once,
\* the trader spelled one way throughout an answer.
Batches(key) ==
    {b \in UNION {[1..n -> RawOrders(key)] : n \in 0..MaxBatch} :
        \A i, j \in DOMAIN b :
            /\ i # j => b[i].id # b[j].id
            /\ b[i].trader = b[j].trader}

\* What a query returns: a failure (non-success status, transport error)
\* or an answer.
ResponsesOf ==
    [key \in Keys |->
        {[ok |-> FALSE, body |-> << >>]} \cup
        {[ok |-> TRUE, body |-> b] : b \in Batches(key)}]

Responses(key) == ResponsesOf[key]

Malformed == [type |-> "malformed"]

\* Payloads of the push channel: not JSON, or an envelope.  An order event
\* carries the order; a fill or a cancellation carries its identifier.
Messages ==
    {Malformed, [type |-> "pong"]} \cup
    {[type |-> t, id |-> o.id, trader |-> o.trader, status |-> o.status] :
        t \in {"order_created", "order_updated"},
        o \in UNION {RawOrders(k) : k \in Keys}} \cup
    {[type |-> t, id |-> i] :
        t \in {"order_filled", "order_cancelled"}, i \in OrderIds}

\* ------------------------------------------------------------------- state
VARIABLES
    copiedWallets,    \* Map: key -> [active, trades]; trades index tradeHistory
    walletKeys,       \* insertion order of the Map's keys
    tradeHistory,     \* sequence of Trade objects [id, status, pnl]
    stats,            \* [totalTrades, activeTrades, profitableTrades, totalPnl]
    isMonitoring,
    pollTimers,       \* setInterval timers created by startPolling
    adds,             \* queried trader -> addWallet calls awaiting the answer
    sweeps,           \* [pos, addr] -> sweeps awaiting the answer for addr,
                      \*   their iterator having consumed pos Map entries
    sockets,          \* slot -> readyState of a WebSocket object
    ws,               \* PolymarketAPI.ws: slot of the current socket, 0 = null
    subscribed,       \* traders whose subscribe message was sent on this.ws
    reconnectTimers,  \* pending setTimeout(connectWebSocket, 5000)
    subPass,          \* the setTimeout(..., 2000) of startWebSocket
    reconnected       \* connectWebSocket has run from the reconnect timer

vars == <<copiedWallets, walletKeys, tradeHistory, stats, isMonitoring,
          pollTimers, adds, sweeps, sockets, ws, subscribed, reconnectTimers,
          subPass, reconnected>>

registryVars == <<copiedWallets, walletKeys, tradeHistory, stats>>
monitorVars == <<isMonitoring, pollTimers>>
socketVars == <<sockets, ws, subscribed, reconnectTimers, subPass, reconnected>>

\* The registry as one value, for the operators that thread it.
Registry == [cw |-> copiedWallets, keys |-> walletKeys,
             th |-> tradeHistory, stats |-> stats]

\* Where a sweep can be suspended.
SweepStates == [pos : 0..Cardinality(Keys), addr : Keys]

NoWallets == [k \in {} |-> [active |-> TRUE, trades |-> << >>]]

Init ==
    /\ copiedWallets = NoWallets
    /\ walletKeys = << >>
    /\ tradeHistory = << >>
    /\ stats = [totalTrades |-> 0, profitableTrades |-> 0,
                totalPnl |-> 0, activeTrades |-> 0]
    /\ isMonitoring = FALSE
    /\ pollTimers = 0
    /\ adds = [k \in Keys |-> 0]
    /\ sweeps = [x \in SweepStates |-> 0]
    /\ sockets = [s \in 1..MaxSockets |-> "FREE"]
    /\ ws = 0
    /\ subscribed = {}
    /\ reconnectTimers = 0
    /\ subPass = "none"
    /\ reconnected = FALSE

\* ------------------------------------------------- PolymarketAPI (queries)
\* parseOrders: id, trader and status are copied; the numeric fields it
\* converts are not part of the model.
ParseOrders(raw) ==
    [i \in DOMAIN raw |->
        [id |-> raw[i].id, trader |-> raw[i].trader, status |-> raw[i].status]]

\* A getWalletOrders without its catch: the failure reaches the caller.
GetWalletOrdersThrows(resp) ==
    IF resp.ok THEN [orders |-> ParseOrders(resp.body), thrown |-> FALSE]
    ELSE [orders |-> << >>, thrown |-> TRUE]

\* getWalletOrders: a non-success status or a transport error is thrown
\* inside the try and caught there: the empty array is returned and nothing
\* is thrown to the caller.
GetWalletOrders(resp) ==
    IF resp.ok THEN [orders |-> ParseOrders(resp.body), thrown |-> FALSE]
    ELSE [orders |-> << >>, thrown |-> FALSE]

\* ------------------------------------------------------ EnhancedCopyTrader
\* A find that never matches.
FindTradeNever(R, key, id) == 0

\* wallet.trades.find(t => t.id === id): index into tradeHistory, 0 = none.
FindTrade(R, key, id) ==
    LET t == R.cw[key].trades
        hits == {i \in DOMAIN t : R.th[t[i]].id = id}
    IN IF hits = {} THEN 0
       ELSE t[CHOOSE i \in hits : \A j \in hits : i <= j]

CreateTradeRecord(order) == [id |-> order.id, status |-> order.status, pnl |-> 0]

\* this.updateTrade(existingTrade, order): the class defines no updateTrade,
\* so the call throws a TypeError and the Trade is left as it was.
UpdateTrade(R, idx, order) == [R |-> R, thrown |-> TRUE]

\* The key under which processOrder looks the wallet up.
LookupKey(order) == ToLowerCase(order.trader)

\* A processOrder that opens a record for a trader it does not know.
ProcessOrderResurrect(R, order) ==
    LET key == LookupKey(order) IN
    IF key \in DOMAIN R.cw /\ FindTrade(R, key, order.id) # 0
    THEN UpdateTrade(R, FindTrade(R, key, order.id), order)
    ELSE [R |-> [R EXCEPT
              !.cw = [k \in DOMAIN R.cw \cup {key} |->
                        IF k = key
                        THEN [active |-> TRUE,
                              trades |-> (IF key \in DOMAIN R.cw
                                          THEN R.cw[key].trades ELSE << >>)
                                         \o <<Len(R.th) + 1>>]
                        ELSE R.cw[k]],
              !.keys = IF key \in DOMAIN R.cw THEN @ ELSE Append(@, key),
              !.th = Append(@, CreateTradeRecord(order)),
              !.stats.totalTrades = @ + 1,
              !.stats.activeTrades =
                  IF order.status = "OPEN" THEN @ + 1 ELSE @],
          thrown |-> FALSE]

\* A processOrder that skips paused wallets.
ProcessOrderActiveOnly(R, order) ==
    LET key == LookupKey(order) IN
    IF key \notin DOMAIN R.cw \/ ~R.cw[key].active
    THEN [R |-> R, thrown |-> FALSE]
    ELSE LET existingTrade == FindTrade(R, key, order.id) IN
         IF existingTrade = 0
         THEN [R |-> [R EXCEPT
                   !.th = Append(@, CreateTradeRecord(order)),
                   !.cw[key].trades = Append(@, Len(R.th) + 1),
                   !.stats.totalTrades = @ + 1,
                   !.stats.activeTrades =
                       IF order.status = "OPEN" THEN @ + 1 ELSE @],
               thrown |-> FALSE]
         ELSE UpdateTrade(R, existingTrade, order)

\* A processOrder that records the Trade and leaves the counter alone.
ProcessOrderNoCount(R, order) ==
    LET key == LookupKey(order) IN
    IF key \notin DOMAIN R.cw THEN [R |-> R, thrown |-> FALSE]
    ELSE LET existingTrade == FindTrade(R, key, order.id) IN
         IF existingTrade = 0
         THEN [R |-> [R EXCEPT
                   !.th = Append(@, CreateTradeRecord(order)),
                   !.cw[key].trades = Append(@, Len(R.th) + 1),
                   !.stats.activeTrades =
                       IF order.status = "OPEN" THEN @ + 1 ELSE @],
               thrown |-> FALSE]
         ELSE UpdateTrade(R, existingTrade, order)

ProcessOrder(R, order) ==
    LET key == LookupKey(order) IN
    IF key \notin DOMAIN R.cw THEN [R |-> R, thrown |-> FALSE]
    ELSE LET existingTrade == FindTrade(R, key, order.id) IN
         IF existingTrade = 0
         THEN [R |-> [R EXCEPT
                   !.th = Append(@, CreateTradeRecord(order)),
                   !.cw[key].trades = Append(@, Len(R.th) + 1),
                   !.stats.totalTrades = @ + 1,
                   !.stats.activeTrades =
                       IF order.status = "OPEN" THEN @ + 1 ELSE @],
               thrown |-> FALSE]
         ELSE UpdateTrade(R, existingTrade, order)

\* orders.forEach(order => this.processOrder(order)): an exception ends the
\* loop; what the earlier orders did stays done.
RECURSIVE ForEachOrder(_, _, _)
ForEachOrder(R, orders, i) ==
    IF i > Len(orders) THEN [R |-> R, thrown |-> FALSE]
    ELSE LET r == ProcessOrder(R, orders[i]) IN
         IF r.thrown THEN r ELSE ForEachOrder(r.R, orders, i + 1)

\* pollWalletOrders after its await: the orders are processed.
PollWalletOrders(R, resp) ==
    LET got == GetWalletOrders(resp) IN
    IF got.thrown THEN [R |-> R, thrown |-> TRUE]
    ELSE ForEachOrder(R, got.orders, 1)

\* this.updateDashboard(): the class defines no updateDashboard (the export
\* of that name is a module function), so the call throws after the Trade
\* and the counter were written.
UpdateDashboard(R) == [R |-> R, thrown |-> TRUE]

\* updateOrderStatus: the first wallet, in Map order, holding the order.
HoldersOf(R, orderId) ==
    {i \in DOMAIN R.keys : FindTrade(R, R.keys[i], orderId) # 0}

\* An updateOrderStatus that refreshes the dashboard before it writes.
UpdateOrderStatusRefreshFirst(R, orderId, status) ==
    IF HoldersOf(R, orderId) = {} THEN [R |-> R, thrown |-> FALSE]
    ELSE UpdateDashboard(R)

UpdateOrderStatus(R, orderId, status) ==
    LET holders == HoldersOf(R, orderId) IN
    IF holders = {} THEN [R |-> R, thrown |-> FALSE]
    ELSE LET i == CHOOSE i \in holders : \A j \in holders : i <= j
             trade == FindTrade(R, R.keys[i], orderId)
         IN UpdateDashboard(
                [R EXCEPT !.th[trade].status = status,
                          !.stats.activeTrades =
                              IF status = "FILLED" THEN @ - 1 ELSE @])

HandleWebSocketMessage(R, data) ==
    IF data.type \in {"order_created", "order_updated"}
    THEN ProcessOrder(R, ParseOrders(<<data>>)[1])
    ELSE IF data.type = "order_filled"
    THEN UpdateOrderStatus(R, data.id, "FILLED")
    ELSE IF data.type = "order_cancelled"
    THEN UpdateOrderStatus(R, data.id, "CANCELLED")
    ELSE [R |-> R, thrown |-> FALSE]

\* A 'message' listener that hands the payload to the handler unparsed.
OnMessageNoParse(R, msg) == HandleWebSocketMessage(R, msg)

\* ws.on('message'): JSON.parse and the handler run inside one try; whatever
\* either throws is caught and logged.
OnMessage(R, msg) ==
    IF msg = Malformed THEN [R |-> R, thrown |-> TRUE]
    ELSE HandleWebSocketMessage(R, msg)

\* --------------------------------------------------- PolymarketAPI (socket)
Sockets == [sockets |-> sockets, ws |-> ws, subscribed |-> subscribed]

FreeSlots(W) == {s \in DOMAIN W.sockets : W.sockets[s] = "FREE"}

\* A closed socket object that this.ws no longer refers to is garbage.
Dropped(W) ==
    IF W.ws # 0 /\ W.sockets[W.ws] = "CLOSED"
    THEN [W EXCEPT !.sockets[W.ws] = "FREE"] ELSE W

CanConnect(W) == FreeSlots(Dropped(W)) # {}

\* connectWebSocket: this.ws = new WebSocket(url); nothing has been sent on
\* the new object.
ConnectWebSocket(W) ==
    LET W1 == Dropped(W)
        s == CHOOSE x \in FreeSlots(W1) : \A y \in FreeSlots(W1) : x <= y
    IN [W1 EXCEPT !.sockets[s] = "CONNECTING", !.ws = s, !.subscribed = {}]

\* ws 'close' on socket s: the state of the object, and nothing else.
Closed(W, s) ==
    IF s = W.ws THEN [W EXCEPT !.sockets[s] = "CLOSED"]
    ELSE [W EXCEPT !.sockets[s] = "FREE"]

\* A subscribeToWallet that does not look at readyState.
SubscribeToWalletAlways(W, walletAddress) ==
    [W EXCEPT !.subscribed = @ \cup {ToLowerCase(walletAddress)}]

\* subscribeToWallet: sent only on an open current socket.
SubscribeToWallet(W, walletAddress) ==
    IF W.ws # 0 /\ W.sockets[W.ws] = "OPEN"
    THEN [W EXCEPT !.subscribed = @ \cup {ToLowerCase(walletAddress)}]
    ELSE W

\* The loop of the subscription pass over copiedWallets, from entry i on.
RECURSIVE SubscribeAll(_, _, _, _)
SubscribeAll(W, cw, keys, i) ==
    IF i > Len(keys) THEN W
    ELSE SubscribeAll(IF cw[keys[i]].active
                      THEN SubscribeToWallet(W, keys[i]) ELSE W,
                      cw, keys, i + 1)

\* ----------------------------------------------------------------- actions
SetRegistry(R) ==
    /\ copiedWallets' = R.cw
    /\ walletKeys' = R.keys
    /\ tradeHistory' = R.th
    /\ stats' = R.stats

SetSockets(W) ==
    /\ sockets' = W.sockets
    /\ ws' = W.ws
    /\ subscribed' = W.subscribed

\* The model stops where tradeHistory or activeTrades would leave the bounds.
InBounds(R) ==
    /\ Len(R.th) <= MaxTrades
    /\ R.stats.activeTrades >= 0 - MinActive

RECURSIVE Total(_, _)
Total(f, S) == IF S = {} THEN 0
               ELSE LET x == CHOOSE y \in S : TRUE IN f[x] + Total(f, S \ {x})

\* Order queries awaiting their answer.
InFlight == Total(adds, Keys) + Total(sweeps, SweepStates)

\* The wallet record addWallet builds.
NewWallet == [active |-> TRUE, trades |-> << >>]

\* A key that keeps the caller's spelling.
AddKeyAsGiven(walletAddress) == walletAddress

\* The Map key addWallet stores the record under.
AddKey(walletAddress) == ToLowerCase(walletAddress)

\* addWallet up to its await: the record replaces any record under the key
\* (Map.set keeps the position of an existing key), and getWalletOrders
\* sends the query for the lower-cased address.
AddWallet(walletAddress) ==
    LET key == AddKey(walletAddress) IN
    /\ InFlight < MaxInFlight
    /\ copiedWallets' =
           [k \in DOMAIN copiedWallets \cup {key} |->
               IF k = key THEN NewWallet ELSE copiedWallets[k]]
    /\ walletKeys' = IF key \in DOMAIN copiedWallets THEN walletKeys
                     ELSE Append(walletKeys, key)
    /\ adds' = [adds EXCEPT ![ToLowerCase(walletAddress)] = @ + 1]
    /\ UNCHANGED <<tradeHistory, stats, monitorVars, sweeps, socketVars>>

\* startMonitoring: the flag, startPolling's timer, startWebSocket's
\* connection and its 2000 ms subscription timer.
StartMonitoring ==
    /\ isMonitoring' = TRUE
    /\ pollTimers' = pollTimers + 1
    /\ CanConnect(Sockets)
    /\ SetSockets(ConnectWebSocket(Sockets))
    /\ subPass' = "pending"
    /\ UNCHANGED <<reconnectTimers, reconnected>>

\* A check that always starts monitoring.
ShouldStartAlways == TRUE

\* if (!this.isMonitoring) of addWallet.
ShouldStartMonitoring == ~isMonitoring

\* addWallet after its await: the answer is processed; when processing
\* throws, the promise of addWallet rejects before the monitoring check.
AddWalletResume(key, resp) ==
    LET r == PollWalletOrders(Registry, resp) IN
    /\ adds[key] > 0
    /\ InBounds(r.R)
    /\ SetRegistry(r.R)
    /\ adds' = [adds EXCEPT ![key] = @ - 1]
    /\ IF ~r.thrown /\ ShouldStartMonitoring
       THEN StartMonitoring
       ELSE UNCHANGED <<monitorVars, socketVars>>
    /\ UNCHANGED sweeps

\* Map.delete under a live iterator: an iterator that has consumed the
\* deleted entry has consumed one entry less of what remains.
Shift(x, at) == IF at # 0 /\ x.pos >= at THEN [x EXCEPT !.pos = @ - 1] ELSE x

RemoveWallet(walletAddress) ==
    LET key == ToLowerCase(walletAddress)
        at == IF key \in DOMAIN copiedWallets
              THEN CHOOSE i \in DOMAIN walletKeys : walletKeys[i] = key
              ELSE 0
    IN
    /\ copiedWallets' = [k \in DOMAIN copiedWallets \ {key} |-> copiedWallets[k]]
    /\ walletKeys' = IF at = 0 THEN walletKeys
                     ELSE SubSeq(walletKeys, 1, at - 1) \o
                          SubSeq(walletKeys, at + 1, Len(walletKeys))
    /\ sweeps' = [x \in SweepStates |->
                    Total(sweeps, {y \in SweepStates : Shift(y, at) = x})]
    /\ UNCHANGED <<tradeHistory, stats, monitorVars, adds, socketVars>>

SetWalletActive(walletAddress, active) ==
    LET key == ToLowerCase(walletAddress) IN
    /\ copiedWallets' =
           IF key \in DOMAIN copiedWallets
           THEN [copiedWallets EXCEPT ![key].active = active]
           ELSE copiedWallets
    /\ UNCHANGED <<walletKeys, tradeHistory, stats, monitorVars, adds, sweeps,
                   socketVars>>

\* A sweep that polls paused wallets too.
PolledAlways(wallet) == TRUE

\* if (wallet.active) of the sweep.
Polled(wallet) == wallet.active

\* The for..of over copiedWallets: the next entry after position pos that
\* the sweep polls, 0 when the iteration is over.
NextActive(cw, keys, pos) ==
    LET later == {i \in DOMAIN keys : i > pos /\ Polled(cw[keys[i]])} IN
    IF later = {} THEN 0 ELSE CHOOSE i \in later : \A j \in later : i <= j

\* The sweeps after one of them, having consumed pos entries, runs on to
\* its next await or to the end of the Map.
RunSweep(sw, cw, keys, pos) ==
    LET n == NextActive(cw, keys, pos) IN
    IF n = 0 THEN sw
    ELSE [sw EXCEPT ![[pos |-> n, addr |-> keys[n]]] = @ + 1]

\* A tick of the polling timer: a new sweep runs to its first await.
SweepStart ==
    /\ pollTimers > 0
    /\ InFlight < MaxInFlight
    /\ sweeps' = RunSweep(sweeps, copiedWallets, walletKeys, 0)
    /\ UNCHANGED <<registryVars, monitorVars, adds, socketVars>>

\* A sweep after an await: the answer is processed and the loop goes on to
\* the next active wallet; when processing throws, the async callback
\* rejects and the sweep ends there.
SweepResume(x, resp) ==
    LET r == PollWalletOrders(Registry, resp)
        rest == [sweeps EXCEPT ![x] = @ - 1]
    IN
    /\ sweeps[x] > 0
    /\ InBounds(r.R)
    /\ SetRegistry(r.R)
    /\ sweeps' = IF r.thrown THEN rest
                 ELSE RunSweep(rest, r.R.cw, r.R.keys, x.pos)
    /\ UNCHANGED <<monitorVars, adds, socketVars>>

\* ws 'open'.
WsOpen(s) ==
    /\ sockets[s] = "CONNECTING"
    /\ sockets' = [sockets EXCEPT ![s] = "OPEN"]
    /\ UNCHANGED <<registryVars, monitorVars, adds, sweeps, ws, subscribed,
                   reconnectTimers, subPass, reconnected>>

\* ws 'error': logged only.
WsError(s) ==
    /\ sockets[s] \in {"CONNECTING", "OPEN"}
    /\ UNCHANGED vars

\* A 'close' handler that sets no timer.
AfterCloseNoTimer(timers) == timers

\* A 'close' handler that sets the timer twice.
AfterCloseTwice(timers) == timers + 2

\* The timers the 'close' handler leaves pending.
AfterClose(timers) == timers + 1

\* ws 'close': the reconnect timer is set.
WsClose(s) ==
    /\ sockets[s] \in {"CONNECTING", "OPEN"}
    /\ SetSockets(Closed(Sockets, s))
    /\ reconnectTimers' = AfterClose(reconnectTimers)
    /\ UNCHANGED <<registryVars, monitorVars, adds, sweeps, subPass, reconnected>>

\* The reconnect timer fires.  It was set at a close, 5000 ms ahead, so the
\* 2000 ms timer of startWebSocket has fired before it.
Reconnect ==
    /\ reconnectTimers > 0
    /\ subPass # "pending"
    /\ CanConnect(Sockets)
    /\ SetSockets(ConnectWebSocket(Sockets))
    /\ reconnectTimers' = reconnectTimers - 1
    /\ reconnected' = TRUE
    /\ UNCHANGED <<registryVars, monitorVars, adds, sweeps, subPass>>

\* The 2000 ms timer of startWebSocket.
SubscribePass ==
    /\ subPass = "pending"
    /\ subPass' = "done"
    /\ SetSockets(SubscribeAll(Sockets, copiedWallets, walletKeys, 1))
    /\ UNCHANGED <<registryVars, monitorVars, adds, sweeps, reconnectTimers,
                   reconnected>>

\* ws 'message' on an open socket.
WsMessage(s, msg) ==
    LET r == OnMessage(Registry, msg) IN
    /\ sockets[s] = "OPEN"
    /\ InBounds(r.R)
    /\ SetRegistry(r.R)
    /\ UNCHANGED <<monitorVars, adds, sweeps, socketVars>>

\* ---------------------------------------------------------- specifications
\* The answers of a venue that holds no order of the queried trader, and the
\* payloads that concern no order.
QuietResponses == {[ok |-> FALSE, body |-> << >>], [ok |-> TRUE, body |-> << >>]}
QuietMessages == {Malformed, [type |-> "pong"]}

Registration ==
    \/ \E a \in Spellings : AddWallet(a)
    \/ \E a \in Spellings : RemoveWallet(a)
    \/ \E a \in Spellings, f \in BOOLEAN : SetWalletActive(a, f)
    \/ SweepStart

\* The ingestion pipeline: registration, polls and push events over a
\* connection that stays up.
IngestNext ==
    \/ Registration
    \/ \E k \in Keys : \E resp \in Responses(k) : AddWalletResume(k, resp)
    \/ \E x \in SweepStates : \E resp \in Responses(x.addr) : SweepResume(x, resp)
    \/ \E s \in DOMAIN sockets : WsOpen(s)
    \/ \E s \in DOMAIN sockets, msg \in Messages : WsMessage(s, msg)

\* The push channel: every socket and timer event, over wallets of which the
\* venue holds no order.
ChannelNext ==
    \/ Registration
    \/ \E k \in Keys : \E resp \in QuietResponses : AddWalletResume(k, resp)
    \/ \E x \in SweepStates : \E resp \in QuietResponses : SweepResume(x, resp)
    \/ \E s \in DOMAIN sockets : WsOpen(s)
    \/ \E s \in DOMAIN sockets : WsError(s)
    \/ \E s \in DOMAIN sockets : WsClose(s)
    \/ Reconnect
    \/ SubscribePass
    \/ \E s \in DOMAIN sockets, msg \in QuietMessages : WsMessage(s, msg)

Next == IngestNext \/ ChannelNext

Spec == Init /\ [][Next]_vars

SpecIngest == Init /\ [][IngestNext]_vars

SpecChannel == Init /\ [][ChannelNext]_vars

\* A pending timer fires.
FairChannel == SpecChannel /\ WF_vars(Reconnect) /\ WF_vars(SubscribePass)

\* ------------------------------------------------------------------ claims
\* The Trades of a wallet, as records.
TradesOf(key) ==
    [i \in DOMAIN copiedWallets[key].trades |->
        tradeHistory[copiedWallets[key].trades[i]]]

PollsInFlight(key) ==
    adds[key] + Total(sweeps, {x \in SweepStates : x.addr = key})

SomeSocketOpen == \E s \in DOMAIN sockets : sockets[s] = "OPEN"

OrderEvents == {m \in Messages : m.type \in {"order_created", "order_updated"}}
StatusEvents == {m \in Messages : m.type \in {"order_filled", "order_cancelled"}}

\* C1: in every reachable state each registered wallet's trade list holds at
\* most one Trade per Order identifier, whatever the interleaving of
\* register, deregister, (overlapping) sweeps and push events.
ThmC1 ==
    \A key \in DOMAIN copiedWallets :
        \A i, j \in DOMAIN TradesOf(key) :
            TradesOf(key)[i].id = TradesOf(key)[j].id => i = j

\* A wallet that holds a Trade while a poll for it is in flight and the push
\* channel is open: the order is about to be delivered again by both.
WitC1 ==
    \E key \in DOMAIN copiedWallets :
        /\ Len(copiedWallets[key].trades) = 2
        /\ PollsInFlight(key) = 2
        /\ SomeSocketOpen

\* C2: a poll that returns a known Order, first seen OPEN and now FILLED,
\* sets the existing Trade's status to FILLED and decrements activeTrades.
CexC2 ==
    [][\A x \in SweepStates : \A resp \in Responses(x.addr) :
          ( /\ SweepResume(x, resp)
            /\ Len(resp.body) = 1
            /\ LookupKey(resp.body[1]) \in DOMAIN copiedWallets
            /\ FindTrade(Registry, LookupKey(resp.body[1]), resp.body[1].id) # 0
            /\ tradeHistory[FindTrade(Registry, LookupKey(resp.body[1]),
                                      resp.body[1].id)].status = "OPEN"
            /\ resp.body[1].status = "FILLED" )
          => /\ tradeHistory'[FindTrade(Registry, LookupKey(resp.body[1]),
                                        resp.body[1].id)].status = "FILLED"
             /\ stats'.activeTrades = stats.activeTrades - 1]_vars

\* An event that belongs to no registered wallet.
Orphan(msg) ==
    \/ msg \in OrderEvents /\ ToLowerCase(msg.trader) \notin DOMAIN copiedWallets
    \/ msg \in StatusEvents /\ Owner(msg.id) \notin DOMAIN copiedWallets

\* What a handler returns when it did nothing and threw nothing.
Discarded(r) == r = [R |-> Registry, thrown |-> FALSE]

\* C3: an order event that arrives for a deregistered address (a late push
\* event, or the answer of a poll that was in flight when the wallet was
\* removed) changes neither the registry nor the trade history nor the
\* counters and throws nothing, and no step but addWallet brings an address
\* into the registry.
ThmC3 ==
    /\ [](\A msg \in Messages :
             (SomeSocketOpen /\ Orphan(msg)) => Discarded(OnMessage(Registry, msg)))
    /\ [](\A k \in Keys \ DOMAIN copiedWallets :
             PollsInFlight(k) > 0
             => \A resp \in Responses(k) :
                    Discarded(PollWalletOrders(Registry, resp)))
    /\ [][\A k \in DOMAIN copiedWallets' \ DOMAIN copiedWallets :
             \E a \in Spellings : ToLowerCase(a) = k /\ AddWallet(a)]_vars

\* A removed wallet whose Trades are still in the history, with a poll for
\* it in flight and the push channel open.
WitC3 ==
    \E k \in Keys :
        /\ k \notin DOMAIN copiedWallets
        /\ PollsInFlight(k) > 0
        /\ \E i \in DOMAIN tradeHistory : Owner(tradeHistory[i].id) = k
        /\ SomeSocketOpen

Paused(key) == key \in DOMAIN copiedWallets /\ ~copiedWallets[key].active

\* C4: setWalletActive(address, false) changes nothing but that wallet's
\* active flag, and no sweep issues a query for a wallet whose flag is false.
\* (A sweep enters an await where its count grows while the Map keeps its
\* keys; a Map deletion only moves the iterators of the suspended sweeps.)
ThmC4 ==
    /\ [][\A a \in Spellings :
             SetWalletActive(a, FALSE)
             => /\ DOMAIN copiedWallets' = DOMAIN copiedWallets
                /\ \A k \in DOMAIN copiedWallets :
                      /\ copiedWallets'[k].trades = copiedWallets[k].trades
                      /\ k # ToLowerCase(a) => copiedWallets'[k] = copiedWallets[k]
                      /\ k = ToLowerCase(a) => ~copiedWallets'[k].active
                /\ UNCHANGED <<walletKeys, tradeHistory, stats, monitorVars,
                               adds, sweeps, socketVars>>]_vars
    /\ [][\A y \in SweepStates :
             (sweeps'[y] > sweeps[y] /\ walletKeys' = walletKeys)
             => (y.addr \in DOMAIN copiedWallets /\ copiedWallets[y.addr].active)]_vars

\* A paused wallet that keeps its Trades while a sweep, having passed it,
\* awaits the answer for the wallet after it.
WitC4 ==
    /\ Len(walletKeys) = 2
    /\ Paused(walletKeys[1])
    /\ Len(copiedWallets[walletKeys[1]].trades) > 0
    /\ sweeps[[pos |-> 2, addr |-> walletKeys[2]]] > 0

\* C5: the registry is keyed by the lower-cased address: it never holds two
\* records for spellings of one address; an Order whose trader is spelled
\* either way is recorded in the wallet registered under any spelling; and
\* register, deregister and setActive with either spelling act on that record.
ThmC5 ==
    /\ [](\A k1, k2 \in DOMAIN copiedWallets :
             ToLowerCase(k1) = ToLowerCase(k2) => k1 = k2)
    /\ [](\A msg \in OrderEvents : \A a \in Spellings :
             ( /\ ToLowerCase(a) = ToLowerCase(msg.trader)
               /\ AddKey(a) \in DOMAIN copiedWallets
               /\ FindTrade(Registry, AddKey(a), msg.id) = 0 )
             => LET r == OnMessage(Registry, msg).R IN
                /\ DOMAIN r.cw = DOMAIN copiedWallets
                /\ r.cw[AddKey(a)].trades =
                       Append(copiedWallets[AddKey(a)].trades, Len(tradeHistory) + 1)
                /\ r.th[Len(tradeHistory) + 1].id = msg.id)
    /\ [][\A a \in Spellings :
             LET same == {ToLowerCase(b) : b \in {c \in Spellings :
                                                   ToLowerCase(c) = ToLowerCase(a)}}
             IN
             /\ (adds' # adds /\ AddWallet(a))
                => \A k \in same : copiedWallets'[k] = NewWallet
             /\ (DOMAIN copiedWallets' # DOMAIN copiedWallets /\ RemoveWallet(a))
                => \A k \in same : k \notin DOMAIN copiedWallets'
             /\ \A f \in BOOLEAN :
                   ( /\ copiedWallets' # copiedWallets
                     /\ DOMAIN copiedWallets' = DOMAIN copiedWallets
                     /\ SetWalletActive(a, f) )
                   => \A k \in same : copiedWallets'[k].active = f]_vars

\* The one record of an address with two spellings, holding two Trades.
WitC5 ==
    /\ DOMAIN copiedWallets = {"0xa"}
    /\ Len(copiedWallets["0xa"].trades) = 2
    /\ SomeSocketOpen

\* C6: at most one polling timer is ever created, it runs exactly when
\* monitoring has started, and whenever a register call ends (its initial
\* poll answered) exactly one timer is running.
ThmC6 ==
    /\ [](pollTimers <= 1 /\ (isMonitoring <=> pollTimers = 1))
    /\ [][Total(adds', Keys) < Total(adds, Keys) => pollTimers' = 1]_vars

\* The timer runs while two later register calls await their initial polls.
WitC6 ==
    /\ pollTimers = 1
    /\ Total(adds, Keys) = 2

Failure == [ok |-> FALSE, body |-> << >>]

\* C7: a failed order query yields the empty sequence and no exception, the
\* poll that receives it leaves registry, history and counters as they were,
\* and the sweep goes on to the next active wallet.
ThmC7 ==
    /\ [](GetWalletOrders(Failure) = [orders |-> << >>, thrown |-> FALSE])
    /\ [](\A k \in Keys :
             PollsInFlight(k) > 0 => Discarded(PollWalletOrders(Registry, Failure)))
    /\ [][\A x \in SweepStates :
             (sweeps[x] > 0 /\ SweepResume(x, Failure))
             => LET n == NextActive(copiedWallets, walletKeys, x.pos) IN
                /\ UNCHANGED registryVars
                /\ n # 0 => sweeps'[[pos |-> n, addr |-> walletKeys[n]]] > 0
                /\ n = 0 => Total(sweeps', SweepStates) < Total(sweeps, SweepStates)]_vars

\* A sweep over two active wallets that has gone on to the second one with
\* nothing recorded for the first.
WitC7 ==
    /\ Len(walletKeys) = 2
    /\ \A k \in DOMAIN copiedWallets : copiedWallets[k].active
    /\ tradeHistory = << >>
    /\ sweeps[[pos |-> 2, addr |-> walletKeys[2]]] > 0

CurrentIs(state) == ws # 0 /\ sockets[ws] = state

\* C8: a closed push channel always has a reconnect timer pending, and every
\* disconnect is followed by a new connection attempt.
ThmC8 ==
    /\ [](CurrentIs("CLOSED") => reconnectTimers > 0)
    /\ (CurrentIs("CLOSED") ~> CurrentIs("CONNECTING"))

\* The channel is down again after an earlier reconnect.
WitC8 == reconnected /\ CurrentIs("CLOSED")

\* C9: a subscription message is sent only on an open current socket; the
\* subscription pass over a channel that is not open changes nothing; and
\* nothing is sent on a connection made by a reconnect.
ThmC9 ==
    /\ [][subscribed' \ subscribed # {} => (CurrentIs("OPEN") /\ ws' = ws)]_vars
    /\ [][(SubscribePass /\ ~CurrentIs("OPEN"))
          => UNCHANGED <<registryVars, monitorVars, adds, sweeps, sockets, ws,
                         subscribed, reconnectTimers, reconnected>>]_vars
    /\ [](reconnected => subscribed = {})

\* After a reconnect the channel is open, an active wallet is registered,
\* the subscription pass is over, and nothing is subscribed.
WitC9 ==
    /\ reconnected
    /\ CurrentIs("OPEN")
    /\ subPass = "done"
    /\ \E k \in DOMAIN copiedWallets : copiedWallets[k].active
    /\ subscribed = {}

Flip(R, key) == [R EXCEPT !.cw[key].active = ~@]

\* C10: what a push event does to the registry does not depend on the
\* wallet's active flag; for a paused wallet a new order is appended as a
\* Trade and a fill or cancellation sets the status of its Trade.
ThmC10 ==
    /\ \A key \in DOMAIN copiedWallets : \A msg \in Messages :
          LET r == OnMessage(Registry, msg)
              f == OnMessage(Flip(Registry, key), msg)
          IN f.thrown = r.thrown /\ f.R = Flip(r.R, key)
    /\ \A msg \in OrderEvents :
          LET key == ToLowerCase(msg.trader) IN
          (Paused(key) /\ FindTrade(Registry, key, msg.id) = 0)
          => LET r == OnMessage(Registry, msg).R IN
             /\ r.cw[key].trades =
                    Append(copiedWallets[key].trades, Len(tradeHistory) + 1)
             /\ r.th[Len(tradeHistory) + 1] = CreateTradeRecord(msg)
    /\ \A msg \in StatusEvents :
          LET key == Owner(msg.id) IN
          (Paused(key) /\ FindTrade(Registry, key, msg.id) # 0)
          => OnMessage(Registry, msg).R.th[FindTrade(Registry, key, msg.id)].status
                 = (IF msg.type = "order_filled" THEN "FILLED" ELSE "CANCELLED")

\* A paused wallet holding a cancelled Trade, the channel open.
WitC10 ==
    \E key \in DOMAIN copiedWallets :
        /\ Paused(key)
        /\ \E i \in DOMAIN TradesOf(key) : TradesOf(key)[i].status = "CANCELLED"
        /\ SomeSocketOpen

\* C11: a payload that is not JSON is dropped: JSON.parse throws inside the
\* try of the listener, so the handler is not reached; registry, history and
\* counters, the sockets and every pending poll and timer are as before, and
\* the socket stays open over the same registry for the messages that follow.
ThmC11 ==
    /\ [](SomeSocketOpen
             => OnMessage(Registry, Malformed) = [R |-> Registry, thrown |-> TRUE])
    /\ [][\A s \in DOMAIN sockets :
             WsMessage(s, Malformed)
             => /\ UNCHANGED vars
                /\ sockets'[s] = "OPEN"
                /\ Registry' = Registry]_vars

\* The channel is open over a registry that holds an open Trade and a poll
\* in flight: a malformed payload has something to disturb.
WitC11 ==
    /\ CurrentIs("OPEN")
    /\ stats.activeTrades = 1
    /\ \E i \in DOMAIN tradeHistory : tradeHistory[i].status = "OPEN"
    /\ InFlight = 1

\* ---------------------------------------------------------- dashboard view
\* wallet.trades.filter(t => t.pnl > 0).length
Profitable(R, key) ==
    Cardinality({i \in DOMAIN R.cw[key].trades : R.th[R.cw[key].trades[i]].pnl > 0})

\* A success rate that divides without looking at the length: 0 / 0 is NaN.
SuccessRateDivides(R, key) ==
    LET n == Len(R.cw[key].trades) IN
    IF n > 0
    THEN [kind |-> "string", tenths |-> (2000 * Profitable(R, key) + n) \div (2 * n)]
    ELSE [kind |-> "NaN", tenths |-> 0]

\* successRate of getDashboardData: with trades, the percentage rounded to
\* one decimal by toFixed(1), which yields a string (counted here in tenths
\* of a percent); without trades the number 0, and no division.
SuccessRate(R, key) ==
    LET n == Len(R.cw[key].trades) IN
    IF n > 0
    THEN [kind |-> "string", tenths |-> (2000 * Profitable(R, key) + n) \div (2 * n)]
    ELSE [kind |-> "number", tenths |-> 0]

\* getDashboardData: one entry per Map entry, in Map order, and the counters.
\* (nickname, the summed pnl and the timestamp are left out.)
GetDashboardData(R) ==
    [wallets |-> [i \in DOMAIN R.keys |->
                    [address |-> R.keys[i],
                     active |-> R.cw[R.keys[i]].active,
                     trades |-> Len(R.cw[R.keys[i]].trades),
                     profitable |-> Profitable(R, R.keys[i]),
                     successRate |-> SuccessRate(R, R.keys[i])]],
     stats |-> R.stats,
     totalWallets |-> Len(R.keys)]

\* C12: for every registered wallet with an empty trade list the dashboard
\* reports the success rate as the number 0.
ThmC12 ==
    \A i \in DOMAIN walletKeys :
        LET entry == GetDashboardData(Registry).wallets[i] IN
        /\ entry.address = walletKeys[i]
        /\ entry.trades = 0 <=> copiedWallets[walletKeys[i]].trades = << >>
        /\ entry.trades = 0 => entry.successRate = [kind |-> "number", tenths |-> 0]

\* A wallet registered again after its Trades were recorded: its list is
\* empty, its initial poll has been answered, the history still holds its
\* Trades, and another wallet is registered beside it.
WitC12 ==
    \E k \in DOMAIN copiedWallets :
        /\ copiedWallets[k].trades = << >>
        /\ adds[k] = 0
        /\ \E i \in DOMAIN tradeHistory : Owner(tradeHistory[i].id) = k
        /\ Len(walletKeys) = 2

\* The Trades held by the registered wallets, counted list by list.
RECURSIVE ListedTrades(_, _)
ListedTrades(cw, S) ==
    IF S = {} THEN 0
    ELSE LET k == CHOOSE x \in S : TRUE IN
         Len(cw[k].trades) + ListedTrades(cw, S \ {k})

\* C13: the total-trades counter equals the sum of the lengths of the trade
\* lists of the registered wallets.
CexC13 == stats.totalTrades = ListedTrades(copiedWallets, DOMAIN copiedWallets)

\* C14: the total-trades counter is the length of the trade history, and an
\* Order that its wallet does not hold yet, arriving by push or by poll, puts
\* one Trade at the end of the wallet's list and of the history, adds one to
\* the total-trades counter and one to the active-trades counter exactly
\* when its status is OPEN, and touches nothing else.
ThmC14 ==
    /\ stats.totalTrades = Len(tradeHistory)
    /\ \A msg \in OrderEvents :
          LET key == ToLowerCase(msg.trader)
              order == ParseOrders(<<msg>>)[1]
              n == Len(tradeHistory) + 1
          IN
          (key \in DOMAIN copiedWallets /\ FindTrade(Registry, key, msg.id) = 0)
          => LET r == ProcessOrder(Registry, order) IN
             /\ ~r.thrown
             /\ r.R.th = Append(tradeHistory, CreateTradeRecord(order))
             /\ r.R.cw = [copiedWallets EXCEPT ![key].trades = Append(@, n)]
             /\ r.R.keys = walletKeys
             /\ r.R.stats = [stats EXCEPT
                    !.totalTrades = @ + 1,
                    !.activeTrades = IF order.status = "OPEN" THEN @ + 1 ELSE @]
             /\ OnMessage(Registry, msg) = r
             /\ PollWalletOrders(Registry, [ok |-> TRUE, body |-> <<order>>]) = r

\* The history holds an OPEN and a FILLED Trade of a wallet whose list, after
\* a second registration, holds only the later one.
WitC14 ==
    /\ Len(tradeHistory) = 2
    /\ tradeHistory[1].status = "OPEN"
    /\ tradeHistory[2].status = "FILLED"
    /\ \E k \in DOMAIN copiedWallets : copiedWallets[k].trades = <<2>>

\* C15: once a sweep has processed the batch a poll returned for a registered
\* wallet, every Order of the batch has a Trade in that wallet's list, and
\* the sweep has gone on to the next active wallet.
CexC15 ==
    [][\A x \in SweepStates : \A resp \in Responses(x.addr) :
          ( /\ sweeps[x] > 0
            /\ resp.ok
            /\ x.addr \in DOMAIN copiedWallets
            /\ SweepResume(x, resp) )
          => /\ \A i \in DOMAIN resp.body :
                   FindTrade(Registry', x.addr, resp.body[i].id) # 0
             /\ LET n == NextActive(copiedWallets, walletKeys, x.pos) IN
                n # 0 => sweeps'[[pos |-> n, addr |-> walletKeys[n]]] > 0]_vars

\* C16: an order_filled or order_cancelled event sets the status of the one
\* Trade with its identifier that a registered wallet holds, and leaves the
\* other Trades, the registered wallets, their trade lists and the
\* total-trades counter as they were; with no such Trade it changes nothing.
ThmC16 ==
    \A msg \in StatusEvents :
        LET r == OnMessage(Registry, msg).R
            held == {i \in DOMAIN tradeHistory :
                        /\ tradeHistory[i].id = msg.id
                        /\ \E k \in DOMAIN copiedWallets :
                              \E j \in DOMAIN copiedWallets[k].trades :
                                  copiedWallets[k].trades[j] = i}
            status == IF msg.type = "order_filled" THEN "FILLED" ELSE "CANCELLED"
        IN
        /\ Cardinality(held) <= 1
        /\ held = {} => OnMessage(Registry, msg) = [R |-> Registry, thrown |-> FALSE]
        /\ \A i \in held : r.th[i] = [tradeHistory[i] EXCEPT !.status = status]
        /\ \A i \in DOMAIN tradeHistory \ held : r.th[i] = tradeHistory[i]
        /\ DOMAIN r.th = DOMAIN tradeHistory
        /\ r.cw = copiedWallets
        /\ r.keys = walletKeys
        /\ r.stats.totalTrades = stats.totalTrades

\* A wallet holds two Trades, one cancelled by an event and one still OPEN,
\* beside a second registered wallet; the channel is open for the next event.
WitC16 ==
    /\ Len(walletKeys) = 2
    /\ \E k \in DOMAIN copiedWallets :
          /\ Len(copiedWallets[k].trades) = 2
          /\ \E i, j \in DOMAIN TradesOf(k) :
                /\ TradesOf(k)[i].status = "CANCELLED"
                /\ TradesOf(k)[j].status = "OPEN"
    /\ SomeSocketOpen

\* C17: the active-trades counter is never negative and equals the number of
\* Trades of the history whose status is OPEN.
CexC17 ==
    /\ stats.activeTrades >= 0
    /\ stats.activeTrades =
           Cardinality({i \in DOMAIN tradeHistory : tradeHistory[i].status = "OPEN"})

\* C18: the trade history holds at most one record per Order identifier.
CexC18 ==
    \A i, j \in DOMAIN tradeHistory :
        tradeHistory[i].id = tradeHistory[j].id => i = j

\* C19: while an address stays registered, its trade list before a step is a
\* prefix of its trade list after the step.
CexC19 ==
    [][\A k \in DOMAIN copiedWallets \cap DOMAIN copiedWallets' :
          /\ Len(copiedWallets[k].trades) <= Len(copiedWallets'[k].trades)
          /\ SubSeq(copiedWallets'[k].trades, 1, Len(copiedWallets[k].trades))
                 = copiedWallets[k].trades]_vars

\* The connections that are connecting or open.
Live == {s \in DOMAIN sockets : sockets[s] \in {"CONNECTING", "OPEN"}}

\* C20: a live connection and a pending reconnect timer exclude each other,
\* there is at most one of either, the live connection is the current one,
\* and a close sets exactly one reconnect timer.
ThmC20 ==
    /\ [](Cardinality(Live) + reconnectTimers <= 1)
    /\ [](Live \subseteq {ws})
    /\ [](isMonitoring => Cardinality(Live) + reconnectTimers = 1)
    /\ [][\A s \in DOMAIN sockets :
             (sockets[s] \in {"CONNECTING", "OPEN"} /\ WsClose(s))
             => /\ reconnectTimers' = reconnectTimers + 1
                /\ Live' = Live \ {s}]_vars

\* A connection made by a reconnect is being established, no timer pending.
WitC20 ==
    /\ reconnected
    /\ CurrentIs("CONNECTING")
    /\ reconnectTimers = 0

\* A wallet that is registered and active.
Watched(k) == k \in DOMAIN copiedWallets /\ copiedWallets[k].active

\* C21: a wallet that is registered and active while the channel is open is
\* eventually subscribed on it (unless it is removed or paused, or the
\* channel goes down, before that).
CexC21 ==
    \A k \in Keys :
        (Watched(k) /\ CurrentIs("OPEN"))
            ~> (k \in subscribed \/ ~Watched(k) \/ ~CurrentIs("OPEN"))

====
